---- MODULE Spec2Model ----
(***************************************************************************)
(* Practice-session engine of E-exam-prepare: the session state machine    *)
(* (backend/app/api/practice.py), its grading pipeline                     *)
(* (backend/app/services/grading.py), the progress aggregator and the      *)
(* leaky-bucket rate limiter (backend/app/services/rate_limiter.py).       *)
(***************************************************************************)
EXTENDS Integers, Sequences, FiniteSets, TLC

VARIABLES
    sessions,   \* table practice_sessions, in insertion order (id = index)
    answers,    \* table practice_answers, in insertion order
    progress,   \* table progress, keyed by <<student_id, topic_id>>
    topics,     \* table topics, keyed by topic id
    docs,       \* table documents, keyed by document id
    now,        \* wall clock read by datetime.now()
    resp,       \* the response of the last request
    txn,        \* concurrent answer requests: each request's position and ORM copy
    bucket,     \* the rate-limit bucket hash in the shared store
    rl_now,     \* time.time() as seen by the rate limiter, in time units
    rl_hist,    \* the checks made on the bucket since it was created
    buckets,    \* the rate-limit hashes in the shared store, by bucket key
    cache,      \* the rag_cache entries in the shared store, by cache key
    rag_resp,   \* the outcome of the last limiter or RAG client call
    grading,    \* the inputs of a grading call and what the grader made of them
    stamps      \* the time.time() readings of the checks on their way to the store

vars == <<sessions, answers, progress, topics, docs, now, resp, txn, bucket, rl_now,
          rl_hist, buckets, cache, rag_resp, grading, stamps>>

ragVars == <<buckets, cache, rag_resp>>

----------------------------------------------------------------------------
(* Bounds of the model *)

MaxSessions == 1
MaxCount == 2
MaxTime == 2
MaxAttempts == 2
MaxRequests == 2
MaxChecks == 7
TicksPerSecond == 2
MaxRlTime == 3
MaxEntries == 2
MaxTextLen == 3
MaxCorrectLen == 2
MaxPasses == 2
MaxAggAnswers == 3
MaxInFlight == 2
MaxConcChecks == 8

----------------------------------------------------------------------------
(* The fixed part of the database: users, subjects, the question pool *)

None == 0

Students == {1, 2}

\* subject ids a request may carry: 1 resolves, 9 does not
SubjectIds == {1}
SubjectIdInputs == {1, 9}
SubjectName == [s \in SubjectIds |-> "Geography"]
SubjectLevel == [s \in SubjectIds |-> "S6"]

\* document ids a request may carry: 1..3 resolve, 9 does not
DocIds == {1, 2, 3}
DocIdInputs == {None, 1, 2, 3, 9}

\* document 1 is ingested and not yet linked to its subject (it matches it by
\* text); document 2 is still being ingested; document 3 is ingested and linked,
\* and no question was extracted from it
InitDocs ==
    (1 :> [subject_id |-> None, subject |-> "Geography", level |-> "S6",
           ingestion_status |-> "completed", collection_name |-> "S6_Geography"])
 @@ (2 :> [subject_id |-> 1, subject |-> "Geography", level |-> "S6",
           ingestion_status |-> "pending", collection_name |-> ""])
 @@ (3 :> [subject_id |-> 1, subject |-> "Geography", level |-> "S6",
           ingestion_status |-> "completed", collection_name |-> ""])

\* the topics that exist before any session is aggregated
InitTopics == (1 :> [subject |-> "Geography", name |-> "Capitals"])

QuestionCounts == 0 .. MaxCount
Modes == {"practice", "real_exam"}

\* a text no request or row can hold: Python's None where a str is expected
NoText == <<"None">>

\* a str is falsy when it is None or empty
Truthy(text) == text # NoText /\ text # <<>>

\* the question pool; 9 is an id that is not in the pool (a synthesized question)
QuestionIds == {1, 2}
QuestionIdInputs == {None, 1, 2, 9}
Questions ==
    (1 :> [document_id |-> 1, topic_id |-> 1, question_type |-> "short-answer",
           correct_answer |-> <<"K","i","g","a","l","i">>])
 @@ (2 :> [document_id |-> 1, topic_id |-> None, question_type |-> "mcq",
           correct_answer |-> <<"B">>])

\* outcome of the OCR call for a request: no image sent, call failed (None),
\* or the transcribed text
OcrText(ocr) ==
    CASE ocr = "text" -> <<"k","i","g","a","l","i">>
      [] ocr = "empty" -> <<>>
      [] OTHER -> NoText

\* the answer a request carries: answer_text (NoText: absent) and the outcome of
\* the OCR call on answer_image_base64 ("no_image": absent)
AnswerInputs ==
    {[answer_text |-> NoText, ocr |-> "no_image"],
     [answer_text |-> <<"k","i","g","a","l","i">>, ocr |-> "no_image"],
     [answer_text |-> <<"b"," ">>, ocr |-> "no_image"],
     [answer_text |-> <<"P","a","r","i","s">>, ocr |-> "no_image"],
     [answer_text |-> NoText, ocr |-> "failed"],
     [answer_text |-> <<>>, ocr |-> "text"]}

\* what query_direct + _parse_grade_json give the grader: the call raises, the
\* reply holds no JSON object, or it holds one with or without the two fields.
\* Scores are in tenths.
LLMReplies ==
    {[kind |-> "error", is_correct |-> "missing", has_score |-> FALSE, score |-> 0],
     [kind |-> "text", is_correct |-> "missing", has_score |-> FALSE, score |-> 0],
     [kind |-> "json", is_correct |-> "True", has_score |-> TRUE, score |-> 10],
     [kind |-> "json", is_correct |-> "False", has_score |-> TRUE, score |-> 0],
     [kind |-> "json", is_correct |-> "True", has_score |-> TRUE, score |-> 15],
     [kind |-> "json", is_correct |-> "missing", has_score |-> TRUE, score |-> 10]}

\* outcome of question synthesis for a next request
SynthOutcomes == {"usable", "none", "error"}
\* the uuid4 a synthesized question is served under: never a pool id
SynthId == 9

IN_PROGRESS == "in_progress"
COMPLETED == "completed"
ABANDONED == "abandoned"

----------------------------------------------------------------------------
(* Text Matcher (services/grading.py).  A text is a sequence of one-character
   strings. *)

UpperChars == <<"A","B","C","D","E","F","G","H","I","J","K","L","M",
                "N","O","P","Q","R","S","T","U","V","W","X","Y","Z">>
LowerChars == <<"a","b","c","d","e","f","g","h","i","j","k","l","m",
                "n","o","p","q","r","s","t","u","v","w","x","y","z">>
Digits == {"0","1","2","3","4","5","6","7","8","9"}

Range(f) == {f[i] : i \in DOMAIN f}

\* \s of the regular expressions and of str.strip()
IsSpace(c) == c \in {" ", "\t", "\n"}
\* \w of the regular expressions
IsWord(c) == c \in Range(UpperChars) \cup Range(LowerChars) \cup Digits \cup {"_"}

ToLower(c) ==
    IF c \in Range(UpperChars)
    THEN LowerChars[CHOOSE i \in 1..26 : UpperChars[i] = c]
    ELSE c

ToUpper(c) ==
    IF c \in Range(LowerChars)
    THEN UpperChars[CHOOSE i \in 1..26 : LowerChars[i] = c]
    ELSE c

\* str.lower()
Lower(s) ==
    [i \in 1..Len(s) |-> ToLower(s[i])]

\* the text as it is, in whatever case
Upper_AsIs(s) ==
    s

\* str.upper()
Upper(s) ==
    [i \in 1..Len(s) |-> ToUpper(s[i])]

RECURSIVE LStrip(_)
LStrip(s) == IF s # <<>> /\ IsSpace(Head(s)) THEN LStrip(Tail(s)) ELSE s

RECURSIVE RStrip(_)
RStrip(s) ==
    IF s # <<>> /\ IsSpace(s[Len(s)]) THEN RStrip(SubSeq(s, 1, Len(s) - 1)) ELSE s

\* str.strip()
Strip(s) == RStrip(LStrip(s))

Articles == {<<"t","h","e">>, <<"a">>, <<"a","n">>}

\* the maximal run of \w characters around position i
WordStart(s, i) ==
    CHOOSE j \in 1..i : /\ \A k \in j..i : IsWord(s[k])
                        /\ (j = 1 \/ ~IsWord(s[j - 1]))
WordEnd(s, i) ==
    CHOOSE j \in i..Len(s) : /\ \A k \in i..j : IsWord(s[k])
                             /\ (j = Len(s) \/ ~IsWord(s[j + 1]))

InArticle(s, i) ==
    /\ IsWord(s[i])
    /\ SubSeq(s, WordStart(s, i), WordEnd(s, i)) \in Articles

RECURSIVE SubArticlesFrom(_, _)
SubArticlesFrom(s, i) ==
    IF i > Len(s) THEN <<>>
    ELSE IF InArticle(s, i)
         THEN <<" ">> \o SubArticlesFrom(s, WordEnd(s, i) + 1)
         ELSE <<s[i]>> \o SubArticlesFrom(s, i + 1)

\* _STRIP_ARTICLES.sub(" ", t): \b(the|a|an)\b
StripArticles(s) == SubArticlesFrom(s, 1)

\* _STRIP_PUNCT.sub(" ", t): [^\w\s]
StripPunct(s) ==
    [i \in 1..Len(s) |-> IF IsWord(s[i]) \/ IsSpace(s[i]) THEN s[i] ELSE " "]

RECURSIVE MultiSpace(_)
\* _MULTI_SPACE.sub(" ", t): \s+
MultiSpace(s) ==
    IF s = <<>> THEN <<>>
    ELSE IF IsSpace(Head(s))
         THEN <<" ">> \o MultiSpace(LStrip(s))
         ELSE <<Head(s)>> \o MultiSpace(Tail(s))

\* the normalisation without its last strip()
_normalise_NoFinalStrip(text) ==
    MultiSpace(StripPunct(StripArticles(Strip(Lower(text)))))

_normalise(text) ==
    LET t1 == Strip(Lower(text))
        t2 == StripArticles(t1)
        t3 == StripPunct(t2)
    IN Strip(MultiSpace(t3))

StartsWith(s, p) == Len(p) <= Len(s) /\ SubSeq(s, 1, Len(p)) = p

RECURSIVE Replace(_, _, _)
\* str.replace(old, new) for a non-empty old
Replace(s, old, new) ==
    IF s = <<>> THEN <<>>
    ELSE IF StartsWith(s, old)
         THEN new \o Replace(SubSeq(s, Len(old) + 1, Len(s)), old, new)
         ELSE <<Head(s)>> \o Replace(Tail(s), old, new)

_SPELLING_EQUIVALENTS == <<
    <<<<"o","r","g","a","n","i","z","a","t","i","o","n">>,
      <<"o","r","g","a","n","i","s","a","t","i","o","n">>>>,
    <<<<"r","e","c","o","g","n","i","z","e">>,
      <<"r","e","c","o","g","n","i","s","e">>>>,
    <<<<"r","e","a","l","i","z","e">>,
      <<"r","e","a","l","i","s","e">>>>,
    <<<<"a","n","a","l","y","z","e">>,
      <<"a","n","a","l","y","s","e">>>>,
    <<<<"c","e","n","t","e","r">>,
      <<"c","e","n","t","r","e">>>>,
    <<<<"c","o","l","o","r">>,
      <<"c","o","l","o","u","r">>>>,
    <<<<"h","o","n","o","r">>,
      <<"h","o","n","o","u","r">>>>,
    <<<<"f","a","v","o","r">>,
      <<"f","a","v","o","u","r">>>>,
    <<<<"d","e","f","e","n","s","e">>,
      <<"d","e","f","e","n","c","e">>>>,
    <<<<"o","f","f","e","n","s","e">>,
      <<"o","f","f","e","n","c","e">>>>,
    <<<<"l","i","c","e","n","s","e">>,
      <<"l","i","c","e","n","c","e">>>>,
    <<<<"p","r","a","c","t","i","c","e">>,
      <<"p","r","a","c","t","i","s","e">>>>,
    <<<<"c","a","t","a","l","o","g">>,
      <<"c","a","t","a","l","o","g","u","e">>>>,
    <<<<"d","i","a","l","o","g">>,
      <<"d","i","a","l","o","g","u","e">>>>,
    <<<<"p","r","o","g","r","a","m">>,
      <<"p","r","o","g","r","a","m","m","e">>>>,
    <<<<"l","a","b","o","r">>,
      <<"l","a","b","o","u","r">>>>,
    <<<<"n","e","i","g","h","b","o","r">>,
      <<"n","e","i","g","h","b","o","u","r">>>>,
    <<<<"b","e","h","a","v","i","o","r">>,
      <<"b","e","h","a","v","i","o","u","r">>>>
>>

RECURSIVE UnifyFrom(_, _)
UnifyFrom(t, k) ==
    IF k > Len(_SPELLING_EQUIVALENTS) THEN t
    ELSE LET american == _SPELLING_EQUIVALENTS[k][1]
             british == _SPELLING_EQUIVALENTS[k][2]
         IN UnifyFrom(Replace(Replace(t, british, american), american, american),
                      k + 1)

_unify_spelling(text) == UnifyFrom(Lower(text), 1)

RECURSIVE Split(_)
\* str.split(): the maximal runs of non-whitespace characters
Split(s) ==
    LET t == LStrip(s)
    IN IF t = <<>> THEN <<>>
       ELSE LET n == IF \E j \in 1..Len(t) : IsSpace(t[j])
                     THEN (CHOOSE j \in 1..Len(t) :
                             IsSpace(t[j]) /\ \A k \in 1..(j - 1) : ~IsSpace(t[k])) - 1
                     ELSE Len(t)
            IN <<SubSeq(t, 1, n)>> \o Split(SubSeq(t, n + 1, Len(t)))

_tier1_normalised_match(student, correct) ==
    _unify_spelling(_normalise(student)) = _unify_spelling(_normalise(correct))

Noise == {<<"a","n","d">>, <<"o","r">>, <<"o","f">>, <<"f","o","r">>, <<"i","n">>,
          <<"t","o">>, <<"i","s">>, <<"a","r","e">>, <<"w","a","s">>,
          <<"w","e","r","e">>, <<"b","e">>}

KeyTokens(tokens) == {t \in tokens \ Noise : Len(t) > 1}

\* a token plus, when it ends in "s" and is longer than 2, the token without it
Expanded(key) ==
    key \cup {SubSeq(t, 1, Len(t) - 1) : t \in {u \in key : u[Len(u)] = "s" /\ Len(u) > 2}}

_tier2_token_match(student, correct) ==
    LET student_tokens == Range(Split(_unify_spelling(_normalise(student))))
        correct_tokens == Range(Split(_unify_spelling(_normalise(correct))))
        correct_key == KeyTokens(correct_tokens)
        student_key == KeyTokens(student_tokens)
    IN IF correct_key = {} THEN TRUE
       ELSE \/ correct_key \subseteq Expanded(student_key)
            \/ Expanded(correct_key) \subseteq Expanded(student_key)

----------------------------------------------------------------------------
(* Grading pipeline *)

\* the LLM's reply to the semantic tier, as _tier3_llm_grade reads it
Tier3Replies == {"no_client", "error", "no_braces", "bad_json",
                 "json_true", "json_false", "json_missing"}

\* a reply that is not JSON read as a positive verdict
_tier3_llm_grade_Lenient(reply) ==
    IF reply \in {"json_true", "bad_json", "no_braces"} THEN "True"
    ELSE IF reply \in {"json_false", "json_missing"} THEN "False" ELSE "None"

_tier3_llm_grade(reply) ==
    CASE reply = "json_true" -> "True"
      [] reply = "json_false" -> "False"
      [] reply = "json_missing" -> "False"
      [] OTHER -> "None"

grade_answer(question_type, student_answer, correct_answer, rag) ==
    IF correct_answer = NoText THEN FALSE
    ELSE LET student == Strip(student_answer)
             correct == Strip(correct_answer)
         IN IF student = <<>> THEN FALSE
            ELSE IF question_type = "mcq" THEN Lower(student) = Lower(correct)
            ELSE IF _tier1_normalised_match(student, correct) THEN TRUE
            ELSE IF _tier2_token_match(student, correct) THEN TRUE
            ELSE IF rag # "no_client" /\ _tier3_llm_grade(rag) # "None"
                 THEN _tier3_llm_grade(rag) = "True"
            ELSE FALSE

\* the backend calls of grade_answer: query_direct, by the semantic tier only
grade_answer_calls(question_type, student_answer, correct_answer, rag) ==
    IF correct_answer = NoText THEN {}
    ELSE LET student == Strip(student_answer)
             correct == Strip(correct_answer)
         IN IF student = <<>> THEN {}
            ELSE IF question_type = "mcq" THEN {}
            ELSE IF _tier1_normalised_match(student, correct) THEN {}
            ELSE IF _tier2_token_match(student, correct) THEN {}
            ELSE IF rag # "no_client" THEN {"query_direct"}
            ELSE {}

Verdict(is_correct, score) ==
    [is_correct |-> is_correct, score |-> score, raises |-> FALSE]

\* grade_result["is_correct"] / grade_result["score"] of a dict without the key
KeyError == [is_correct |-> "None", score |-> 0, raises |-> TRUE]

Bool(b) == IF b THEN "True" ELSE "False"

\* the backends _grade_answer_with_rag calls: none on the quick MCQ path, else
\* retrieval when the session has a collection, and the LLM
GradeCalls(question_type, correct_answer, collection) ==
    IF question_type = "mcq" /\ Truthy(correct_answer) THEN {}
    ELSE (IF collection # "" THEN {"retrieve"} ELSE {}) \cup {"llm"}

_grade_answer_with_rag(student_answer, correct_answer, question_type, llm) ==
    IF question_type = "mcq" /\ Truthy(correct_answer)
    THEN LET is_correct == Upper(Strip(student_answer)) = Upper(Strip(correct_answer))
         IN Verdict(Bool(is_correct), IF is_correct THEN 10 ELSE 0)
    ELSE IF llm.kind = "error"
    THEN IF Truthy(correct_answer)
         THEN LET is_correct == grade_answer(question_type, student_answer,
                                             correct_answer, "no_client")
              IN Verdict(Bool(is_correct), IF is_correct THEN 10 ELSE 0)
         ELSE Verdict("None", 0)
    ELSE IF llm.kind = "text"
    THEN Verdict("False", 0)
    ELSE IF llm.is_correct = "missing" \/ ~llm.has_score
         THEN KeyError
         ELSE Verdict(llm.is_correct, llm.score)

----------------------------------------------------------------------------
(* start_practice_session *)

\* f"{level}_{name}".replace(" ", "_")
SubjectCollection(sid) == "S6_Geography"

_get_collection_for_document(d) ==
    IF docs[d].collection_name # "" THEN docs[d].collection_name
    ELSE "S6_Geography"

\* _find_subject_docs: FK match first, text match as fallback
_find_subject_docs(sid) ==
    LET done == {d \in DocIds : docs[d].ingestion_status = "completed"}
        fk == {d \in done : docs[d].subject_id = sid}
    IN IF fk # {} THEN fk
       ELSE {d \in done : docs[d].subject = SubjectName[sid]
                          /\ docs[d].level = SubjectLevel[sid]}

\* the row created with a completion time already in it
NewSession_Stamped(student, sid, did, coll, count) ==
    [student_id |-> student, subject_id |-> sid, document_id |-> did,
     collection_name |-> coll, status |-> IN_PROGRESS,
     total_questions |-> count, answered_count |-> 0, correct_count |-> 0,
     completed_at |-> 1]

NewSession(student, sid, did, coll, count) ==
    [student_id |-> student, subject_id |-> sid, document_id |-> did,
     collection_name |-> coll, status |-> IN_PROGRESS,
     total_questions |-> count, answered_count |-> 0, correct_count |-> 0,
     completed_at |-> None]

Reply(op, caller, sid, code, detail) ==
    [op |-> op, caller |-> caller, sid |-> sid, code |-> code, detail |-> detail,
     question_id |-> None, is_correct |-> "None", listed |-> {}, calls |-> {},
     score |-> 0]

\* the verdict of the limiter ignored
Rejected_Never(admitted) ==
    FALSE

\* require_rag_rate_limit raises 429 when _check says no
Rejected(admitted) ==
    ~admitted

AutoLink(d, sid) ==
    IF docs[d].subject_id = None
    THEN [docs EXCEPT ![d].subject_id = sid]
    ELSE docs

\* admitted: the verdict of the require_rag_rate_limit dependency, which runs
\* before the handler
Start(caller, subject_id, document_id, count, mode, admitted) ==
    /\ Len(sessions) < MaxSessions
    /\ UNCHANGED <<answers, progress, topics, now>>
    /\ IF Rejected(admitted)
       THEN /\ resp' = Reply("start", caller, None, 429,
                             "Too many requests - please slow down.")
            /\ UNCHANGED <<sessions, docs>>
       ELSE IF subject_id \notin SubjectIds
       THEN /\ resp' = Reply("start", caller, None, 404, "Subject not found")
            /\ UNCHANGED <<sessions, docs>>
       ELSE IF document_id # None
       THEN IF document_id \in DocIds
               /\ docs[document_id].ingestion_status = "completed"
            THEN /\ docs' = AutoLink(document_id, subject_id)
                 /\ sessions' = Append(sessions,
                        NewSession(caller, subject_id, document_id,
                                   _get_collection_for_document(document_id), count))
                 /\ resp' = Reply("start", caller, Len(sessions) + 1, 201, "")
            ELSE /\ resp' = Reply("start", caller, None, 404,
                                  "Document not found or not ingested")
                 /\ UNCHANGED <<sessions, docs>>
       ELSE IF mode = "real_exam"
       THEN IF _find_subject_docs(subject_id) = {}
            THEN /\ resp' = Reply("start", caller, None, 404,
                                  "No ingested exam papers found for this subject")
                 /\ UNCHANGED <<sessions, docs>>
            ELSE \E d \in _find_subject_docs(subject_id) :
                 /\ docs' = AutoLink(d, subject_id)
                 /\ sessions' = Append(sessions,
                        NewSession(caller, subject_id, d,
                                   _get_collection_for_document(d), count))
                 /\ resp' = Reply("start", caller, Len(sessions) + 1, 201, "")
       ELSE /\ docs' = [d \in DocIds |->
                          IF /\ docs[d].subject = SubjectName[subject_id]
                             /\ docs[d].level = SubjectLevel[subject_id]
                             /\ docs[d].subject_id = None
                             /\ docs[d].ingestion_status = "completed"
                          THEN [docs[d] EXCEPT !.subject_id = subject_id]
                          ELSE docs[d]]
            /\ sessions' = Append(sessions,
                   NewSession(caller, subject_id, None,
                              SubjectCollection(subject_id), count))
            /\ resp' = Reply("start", caller, Len(sessions) + 1, 201, "")

----------------------------------------------------------------------------
(* _get_session and the read-only projections *)

SessionIds == 1 .. Len(sessions)
\* session ids a request may carry: the existing ones and one that is absent
SessionIdInputs == 1 .. (MaxSessions + 1)

\* _get_session without its student filter
Visible_AnyStudent(sid, student) ==
    sid \in SessionIds

\* _get_session: the row with this id AND this student, else 404
Visible(sid, student) ==
    sid \in SessionIds /\ sessions[sid].student_id = student

NotFound(op, caller, sid) ==
    Reply(op, caller, sid, 404, "Practice session not found")

AnswersOf(sid) == SelectSeq(answers, LAMBDA a : a.session_id = sid)

Get(caller, sid) ==
    /\ resp' = IF Visible(sid, caller)
               THEN Reply("get", caller, sid, 200, "")
               ELSE NotFound("get", caller, sid)
    /\ UNCHANGED <<sessions, answers, progress, topics, docs, now>>

List(caller) ==
    /\ resp' = [Reply("list", caller, None, 200, "") EXCEPT
                  !.listed = {i \in SessionIds : sessions[i].student_id = caller}]
    /\ UNCHANGED <<sessions, answers, progress, topics, docs, now>>

----------------------------------------------------------------------------
(* get_next_question *)

\* no answer taken into account
answered_ids_None(sid) ==
    {}

answered_ids(sid) ==
    {answers[i].question_id :
        i \in {j \in 1..Len(answers) : /\ answers[j].session_id = sid
                                       /\ answers[j].question_id # None}}

subject_doc_ids(sid) ==
    LET subj == sessions[sid].subject_id
        done == {d \in DocIds : docs[d].ingestion_status = "completed"}
        fk == {d \in done : docs[d].subject_id = subj}
    IN IF fk = {} /\ subj \in SubjectIds
       THEN {d \in done : docs[d].subject = SubjectName[subj]
                          /\ docs[d].level = SubjectLevel[subj]}
       ELSE fk

\* the pool questions the session may still be served
existing_questions(sid) ==
    IF sessions[sid].document_id # None
    THEN {q \in QuestionIds : /\ Questions[q].document_id = sessions[sid].document_id
                              /\ q \notin answered_ids(sid)}
    ELSE IF sessions[sid].subject_id # None
    THEN {q \in QuestionIds : /\ Questions[q].document_id \in subject_doc_ids(sid)
                              /\ q \notin answered_ids(sid)}
    ELSE {}

\* the quota test with > in place of >=
Exhausted_OffByOne(sid) ==
    sessions[sid].answered_count > sessions[sid].total_questions

\* the quota test of next
Exhausted(sid) ==
    sessions[sid].answered_count >= sessions[sid].total_questions

\* the backends _generate_rag_question calls: retrieval always, the LLM once
\* retrieval gave chunks ("none": no chunk came back; "error": the LLM raised)
SynthCalls(synth) ==
    IF synth = "none" THEN {"retrieve"} ELSE {"retrieve", "llm"}

NextQuestion(caller, sid, synth, admitted) ==
    /\ UNCHANGED <<sessions, answers, progress, topics, docs, now>>
    /\ IF Rejected(admitted)
       THEN resp' = Reply("next", caller, sid, 429,
                          "Too many requests - please slow down.")
       ELSE IF ~Visible(sid, caller)
       THEN resp' = NotFound("next", caller, sid)
       ELSE IF Exhausted(sid)
       THEN resp' = Reply("next", caller, sid, 404,
                          "All questions answered - session complete")
       ELSE IF existing_questions(sid) # {}
       THEN \E q \in existing_questions(sid) :
               resp' = [Reply("next", caller, sid, 200, "pool") EXCEPT !.question_id = q]
       ELSE IF sessions[sid].collection_name # "" /\ synth = "usable"
       THEN resp' = [Reply("next", caller, sid, 200, "synthesized") EXCEPT
                       !.question_id = SynthId, !.calls = SynthCalls(synth)]
       ELSE resp' = [Reply("next", caller, sid, 404,
                           "No more questions available for this practice session")
                       EXCEPT !.calls = IF sessions[sid].collection_name # ""
                                        THEN SynthCalls(synth) ELSE {}]

----------------------------------------------------------------------------
(* submit_practice_answer *)

\* the answer text the handler grades: OCR transcript first, typed text second
StudentAnswer(answer_text, ocr) ==
    LET typed == IF Truthy(answer_text) THEN answer_text ELSE <<>>
    IN IF ocr = "no_image" THEN typed
       ELSE IF Truthy(OcrText(ocr)) THEN OcrText(ocr)
       ELSE IF typed # <<>> THEN typed
       ELSE <<"[","?","]">>

\* the row stored without its session
NewAnswer_Unlinked(sid, qid, grade) ==
    [session_id |-> None, question_id |-> qid,
     is_correct |-> grade.is_correct, score |-> grade.score]

NewAnswer(sid, qid, grade) ==
    [session_id |-> sid, question_id |-> qid,
     is_correct |-> grade.is_correct, score |-> grade.score]

\* the question a request names: the pool row, or nothing known about it
CorrectAnswerOf(question_id) ==
    IF question_id \in QuestionIds THEN Questions[question_id].correct_answer
    ELSE NoText

QuestionTypeOf(question_id) ==
    IF question_id \in QuestionIds THEN Questions[question_id].question_type
    ELSE "short-answer"

\* the handler's two pure steps, tabulated over the inputs of a request
StudentAnswers ==
    [input \in AnswerInputs |-> StudentAnswer(input.answer_text, input.ocr)]

Grades ==
    [question_id \in QuestionIdInputs, input \in AnswerInputs, llm \in LLMReplies |->
        _grade_answer_with_rag(StudentAnswers[input], CorrectAnswerOf(question_id),
                               QuestionTypeOf(question_id), llm)]

\* every verdict but False counted as correct
Counted_NotFalse(is_correct) ==
    IF is_correct # "False" THEN 1 ELSE 0

\* if grade_result["is_correct"]: session.correct_count += 1
Counted(is_correct) ==
    IF is_correct = "True" THEN 1 ELSE 0

\* the request once it is admitted, resolved and active: grade and record
Submit(caller, sid, question_id, input, llm) ==
    LET db_question_id == IF question_id \in QuestionIds THEN question_id ELSE None
        student_answer == StudentAnswers[input]
        grade == Grades[question_id, input, llm]
        answered == sessions[sid].answered_count + 1
        correct == sessions[sid].correct_count + Counted(grade.is_correct)
        done == answered >= sessions[sid].total_questions
        ocr_calls == IF input.ocr = "no_image" THEN {} ELSE {"ocr"}
        calls == ocr_calls \cup GradeCalls(QuestionTypeOf(question_id),
                                           CorrectAnswerOf(question_id),
                                           sessions[sid].collection_name)
    IN IF student_answer = <<>>
       THEN /\ resp' = [Reply("answer", caller, sid, 400, "No answer provided")
                          EXCEPT !.calls = ocr_calls]
            /\ UNCHANGED <<sessions, answers>>
       ELSE IF grade.raises
       THEN /\ resp' = [Reply("answer", caller, sid, 500, "Internal Server Error")
                          EXCEPT !.calls = calls]
            /\ UNCHANGED <<sessions, answers>>
       ELSE /\ answers' = Append(answers, NewAnswer(sid, db_question_id, grade))
            /\ sessions' = [sessions EXCEPT
                  ![sid].answered_count = answered,
                  ![sid].correct_count = correct,
                  ![sid].status = IF done THEN COMPLETED ELSE @,
                  ![sid].completed_at = IF done THEN now ELSE @]
            /\ resp' = [Reply("answer", caller, sid, 200, "") EXCEPT
                          !.is_correct = grade.is_correct, !.score = grade.score,
                          !.calls = calls]

\* the status test of answer left out
Active_Always(sid) ==
    TRUE

\* the status test of answer
Active(sid) ==
    sessions[sid].status = IN_PROGRESS

Answer(caller, sid, admitted) ==
    /\ UNCHANGED <<progress, topics, docs, now>>
    /\ IF Rejected(admitted)
       THEN /\ resp' = Reply("answer", caller, sid, 429,
                             "Too many requests - please slow down.")
            /\ UNCHANGED <<sessions, answers>>
       ELSE IF ~Visible(sid, caller)
       THEN /\ resp' = NotFound("answer", caller, sid)
            /\ UNCHANGED <<sessions, answers>>
       ELSE IF ~Active(sid)
       THEN /\ resp' = Reply("answer", caller, sid, 400, "Practice session is not active")
            /\ UNCHANGED <<sessions, answers>>
       ELSE \E question_id \in QuestionIdInputs, input \in AnswerInputs,
               llm \in LLMReplies :
               Submit(caller, sid, question_id, input, llm)

----------------------------------------------------------------------------
(* Progress Aggregator and complete_practice_session *)

\* c / q cut off after four places
Round4_Floor(c, q) ==
    (10000 * c) \div q

\* round(c / q, 4), in ten-thousandths
Round4(c, q) ==
    (2 * 10000 * c + q) \div (2 * q)

SubjectLabel(subject_id) ==
    IF subject_id \in SubjectIds THEN SubjectName[subject_id] ELSE "General"

\* the bucket an answer is tallied in
TopicNameOf(a, tp, subject_id) ==
    IF a.question_id # None
    THEN IF Questions[a.question_id].topic_id # None
         THEN tp[Questions[a.question_id].topic_id].name
         ELSE "General"
    ELSE SubjectLabel(subject_id)

TopicIdOf(a) ==
    IF a.question_id # None THEN Questions[a.question_id].topic_id ELSE None

RECURSIVE BucketNames(_, _, _)
\* the keys of topic_tallies, in insertion order
BucketNames(as, tp, subject_id) ==
    IF as = <<>> THEN <<>>
    ELSE LET rest == BucketNames(SubSeq(as, 1, Len(as) - 1), tp, subject_id)
             name == TopicNameOf(as[Len(as)], tp, subject_id)
         IN IF name \in Range(rest) THEN rest ELSE Append(rest, name)

NewProgress ==
    [total_correct |-> 0, total_questions |-> 0, accuracy |-> 0,
     attempt_count |-> 0]

\* the upsert of one bucket: find or create the topic, find or create the
\* Progress row, add the tally
UpsertBucket(db, name, as, student_id, subject_id) ==
    LET mine == SelectSeq(as, LAMBDA a : TopicNameOf(a, db.topics, subject_id) = name)
        total == Len(mine)
        correct == Len(SelectSeq(mine, LAMBDA a : a.is_correct = "True"))
        found == {t \in DOMAIN db.topics :
                    /\ db.topics[t].subject = SubjectLabel(subject_id)
                    /\ db.topics[t].name = name}
        fresh == Cardinality(DOMAIN db.topics) + 1
        topic_id == IF TopicIdOf(mine[1]) # None THEN TopicIdOf(mine[1])
                    ELSE IF found # {} THEN CHOOSE t \in found : TRUE
                    ELSE fresh
        tp == IF topic_id \in DOMAIN db.topics THEN db.topics
              ELSE db.topics @@ (topic_id :> [subject |-> SubjectLabel(subject_id),
                                              name |-> name])
        key == <<student_id, topic_id>>
        prog == IF key \in DOMAIN db.progress THEN db.progress[key] ELSE NewProgress
        upd == [total_correct |-> prog.total_correct + correct,
                total_questions |-> prog.total_questions + total,
                attempt_count |-> prog.attempt_count + 1,
                accuracy |-> IF prog.total_questions + total # 0
                             THEN Round4(prog.total_correct + correct,
                                         prog.total_questions + total)
                             ELSE 0]
    IN [topics |-> tp,
        progress |-> [k \in DOMAIN db.progress \cup {key} |->
                        IF k = key THEN upd ELSE db.progress[k]]]

RECURSIVE UpsertAll(_, _, _, _, _)
UpsertAll(db, names, as, student_id, subject_id) ==
    IF names = <<>> THEN db
    ELSE UpsertAll(UpsertBucket(db, Head(names), as, student_id, subject_id),
                   Tail(names), as, student_id, subject_id)

_update_progress_from_session(sid, student_id) ==
    LET as == AnswersOf(sid)
        db == [topics |-> topics, progress |-> progress]
    IN IF as = <<>> THEN db
       ELSE UpsertAll(db, BucketNames(as, topics, sessions[sid].subject_id),
                      as, student_id, sessions[sid].subject_id)

Complete(caller, sid) ==
    /\ UNCHANGED <<answers, docs, now>>
    /\ IF ~Visible(sid, caller)
       THEN /\ resp' = NotFound("complete", caller, sid)
            /\ UNCHANGED <<sessions, progress, topics>>
       ELSE LET db == _update_progress_from_session(sid, caller)
            IN /\ \A k \in DOMAIN db.progress : db.progress[k].attempt_count <= MaxAttempts
               /\ sessions' = [sessions EXCEPT ![sid].status = COMPLETED,
                                               ![sid].completed_at = now]
               /\ topics' = db.topics
               /\ progress' = db.progress
               /\ resp' = Reply("complete", caller, sid, 200, "")

Tick ==
    /\ now < MaxTime
    /\ now' = now + 1
    /\ UNCHANGED <<sessions, answers, progress, topics, docs, resp>>

----------------------------------------------------------------------------
(* The session engine, one request at a time *)

\* a request slot that holds no request yet
IdleTxn == [pc |-> "idle", caller |-> None, sid |-> None,
            answered_count |-> 0, correct_count |-> 0, total_questions |-> 0,
            answer |-> <<>>]
Requests == 1 .. MaxRequests
NoTxn == [r \in Requests |-> IdleTxn]
\* the bucket key is absent from the store
NoBucket == [exists |-> FALSE, tokens |-> 0, last_refill |-> 0, expire_at |-> 0]

InitSession ==
    /\ sessions = <<>>
    /\ answers = <<>>
    /\ progress = <<>>
    /\ topics = InitTopics
    /\ docs = InitDocs
    /\ now = 1
    /\ resp = Reply("none", None, None, 0, "")

\* no grading call has been made
NoGrading ==
    [op |-> "none", question_type |-> "", student_answer |-> <<>>,
     correct_answer |-> NoText, text |-> <<>>, before |-> <<>>, passes |-> 0,
     is_correct |-> "None", score |-> 0, raises |-> FALSE, calls |-> {},
     rag |-> "no_client"]

\* nothing in flight, and an empty shared store
InitStores ==
    /\ txn = NoTxn
    /\ stamps = {}
    /\ bucket = NoBucket
    /\ rl_now = 0
    /\ rl_hist = <<>>
    /\ buckets = <<>>
    /\ cache = <<>>
    /\ rag_resp = [op |-> "none", user |-> None, key |-> <<>>, allowed |-> TRUE,
              store_up |-> TRUE, set_up |-> TRUE, query |-> "", filters |-> "", history |-> <<>>,
              hit |-> FALSE, backend |-> FALSE, raised |-> FALSE,
              value |-> [op |-> "", query |-> "", filters |-> "", history |-> <<>>]]

Init ==
    /\ InitSession
    /\ InitStores
    /\ grading = NoGrading

Next ==
    \/ /\ \E caller \in Students, subject_id \in SubjectIdInputs,
             document_id \in DocIdInputs, count \in QuestionCounts,
             mode \in Modes, admitted \in BOOLEAN :
            Start(caller, subject_id, document_id, count, mode, admitted)
       /\ UNCHANGED <<txn, bucket, rl_now, rl_hist, buckets, cache, rag_resp, grading, stamps>>
    \/ /\ \E caller \in Students, sid \in SessionIdInputs,
             synth \in SynthOutcomes, admitted \in BOOLEAN :
            NextQuestion(caller, sid, synth, admitted)
       /\ UNCHANGED <<txn, bucket, rl_now, rl_hist, buckets, cache, rag_resp, grading, stamps>>
    \/ /\ \E caller \in Students, sid \in SessionIdInputs, admitted \in BOOLEAN :
            Answer(caller, sid, admitted)
       /\ UNCHANGED <<txn, bucket, rl_now, rl_hist, buckets, cache, rag_resp, grading, stamps>>
    \/ /\ \E caller \in Students, sid \in SessionIdInputs : Complete(caller, sid)
       /\ UNCHANGED <<txn, bucket, rl_now, rl_hist, buckets, cache, rag_resp, grading, stamps>>
    \/ /\ \E caller \in Students, sid \in SessionIdInputs : Get(caller, sid)
       /\ UNCHANGED <<txn, bucket, rl_now, rl_hist, buckets, cache, rag_resp, grading, stamps>>
    \/ /\ \E caller \in Students : List(caller)
       /\ UNCHANGED <<txn, bucket, rl_now, rl_hist, buckets, cache, rag_resp, grading, stamps>>
    \/ /\ Tick
       /\ UNCHANGED <<txn, bucket, rl_now, rl_hist, buckets, cache, rag_resp, grading, stamps>>

Spec == Init /\ [][Next]_vars

----------------------------------------------------------------------------
(* submit_practice_answer under concurrent requests.  Each request runs in its
   own database session: _get_session loads the row into the request's ORM
   copy, the handler computes on the copy, and db.commit() inserts the answer
   row and writes back the columns the handler assigned.  Nothing locks the
   session row in between. *)

NoAnswer == NewAnswer(None, None, [is_correct |-> "None", score |-> 0])

Finish(r, caller, sid, code, detail) ==
    /\ txn' = [txn EXCEPT ![r] = [IdleTxn EXCEPT !.pc = "done", !.caller = caller,
                                                 !.sid = sid, !.answer = NoAnswer]]
    /\ resp' = Reply("answer", caller, sid, code, detail)

\* the rate-limit dependency, _get_session and the status test
ConcRead(r, caller, sid, admitted) ==
    /\ txn[r].pc = "idle"
    /\ UNCHANGED <<sessions, answers, progress, topics, docs, now>>
    /\ IF ~admitted
       THEN Finish(r, caller, sid, 429, "Too many requests - please slow down.")
       ELSE IF ~Visible(sid, caller)
       THEN Finish(r, caller, sid, 404, "Practice session not found")
       ELSE IF ~Active(sid)
       THEN Finish(r, caller, sid, 400, "Practice session is not active")
       ELSE /\ txn' = [txn EXCEPT ![r] =
                        [pc |-> "active", caller |-> caller, sid |-> sid,
                         answered_count |-> sessions[sid].answered_count,
                         correct_count |-> sessions[sid].correct_count,
                         total_questions |-> sessions[sid].total_questions,
                         answer |-> NoAnswer]]
            /\ resp' = Reply("answer", caller, sid, 0, "pending")

\* question lookup, OCR and grading: the slow part of the request
ConcGrade(r, question_id, input, llm) ==
    /\ txn[r].pc = "active"
    /\ UNCHANGED <<sessions, answers, progress, topics, docs, now>>
    /\ LET db_question_id == IF question_id \in QuestionIds THEN question_id ELSE None
           grade == Grades[question_id, input, llm]
       IN IF StudentAnswers[input] = <<>>
          THEN Finish(r, txn[r].caller, txn[r].sid, 400, "No answer provided")
          ELSE IF grade.raises
          THEN Finish(r, txn[r].caller, txn[r].sid, 500, "Internal Server Error")
          ELSE /\ txn' = [txn EXCEPT ![r].pc = "graded",
                             ![r].answer = NewAnswer(txn[r].sid, db_question_id, grade)]
               /\ resp' = Reply("answer", txn[r].caller, txn[r].sid, 0, "pending")

\* db.add, the counter updates on the ORM copy, and db.commit()
ConcCommit(r) ==
    /\ txn[r].pc = "graded"
    /\ UNCHANGED <<progress, topics, docs, now>>
    /\ LET sid == txn[r].sid
           answered == txn[r].answered_count + 1
           right == txn[r].answer.is_correct = "True"
           done == answered >= txn[r].total_questions
       IN /\ answers' = Append(answers, txn[r].answer)
          /\ sessions' = [sessions EXCEPT
                ![sid].answered_count = answered,
                ![sid].correct_count = IF right THEN txn[r].correct_count + 1 ELSE @,
                ![sid].status = IF done THEN COMPLETED ELSE @,
                ![sid].completed_at = IF done THEN now ELSE @]
          /\ txn' = [txn EXCEPT ![r].pc = "done"]
          /\ resp' = [Reply("answer", txn[r].caller, sid, 200, "") EXCEPT
                        !.is_correct = txn[r].answer.is_correct]

NextConc ==
    \/ /\ \E caller \in Students, subject_id \in SubjectIdInputs,
             document_id \in DocIdInputs, count \in QuestionCounts,
             mode \in Modes, admitted \in BOOLEAN :
            Start(caller, subject_id, document_id, count, mode, admitted)
       /\ UNCHANGED <<txn, bucket, rl_now, rl_hist, buckets, cache, rag_resp, grading, stamps>>
    \/ /\ \E r \in Requests, caller \in Students, sid \in SessionIdInputs,
             admitted \in BOOLEAN :
            ConcRead(r, caller, sid, admitted)
       /\ UNCHANGED <<bucket, rl_now, rl_hist, buckets, cache, rag_resp, grading, stamps>>
    \/ /\ \E r \in Requests, question_id \in QuestionIdInputs,
             input \in AnswerInputs, llm \in LLMReplies :
            ConcGrade(r, question_id, input, llm)
       /\ UNCHANGED <<bucket, rl_now, rl_hist, buckets, cache, rag_resp, grading, stamps>>
    \/ /\ \E r \in Requests : ConcCommit(r)
       /\ UNCHANGED <<bucket, rl_now, rl_hist, buckets, cache, rag_resp, grading, stamps>>

SpecConc == Init /\ [][NextConc]_vars

----------------------------------------------------------------------------
(* Leaky-bucket rate limiter (services/rate_limiter.py).  Time is counted in
   ticks of 1/TicksPerSecond s and tokens in units of 1/TokenUnit token, which
   makes the refill of one tick, rpm / 60.0 tokens per second, the integer
   RATE_LIMIT_RAG_RPM.  The store keeps the numbers the script writes without
   loss, so the arithmetic of the script is exact on this grid. *)

RATE_LIMIT_RAG_RPM == 30
RATE_LIMIT_RAG_BURST == 5
\* the lifetime EXPIRE gives the bucket key, in seconds
BucketTTL == 120

TokenUnit == 60 * TicksPerSecond

Min(a, b) == IF a <= b THEN a ELSE b
Max(a, b) == IF a >= b THEN a ELSE b

\* the refill that never adds a token
Refill_Never(tokens, elapsed, max_tokens, refill_rate) ==
    Min(max_tokens, tokens)

\* math.min(max_tokens, tokens + elapsed * refill_rate)
Refill(tokens, elapsed, max_tokens, refill_rate) ==
    Min(max_tokens, tokens + elapsed * refill_rate)

\* the script: stored is the hash under the key (exists = FALSE: HMGET gives nil)
_LUA_SCRIPT(stored, max_tokens, refill_rate, t) ==
    LET tokens0 == IF stored.exists THEN stored.tokens ELSE max_tokens
        last_refill == IF stored.exists THEN stored.last_refill ELSE t
        elapsed == Max(0, t - last_refill)
        tokens == Refill(tokens0, elapsed, max_tokens, refill_rate)
        allowed == tokens >= TokenUnit
    IN [allowed |-> allowed,
        bucket |-> [exists |-> TRUE,
                    tokens |-> IF allowed THEN tokens - TokenUnit ELSE tokens,
                    last_refill |-> t,
                    expire_at |-> t + BucketTTL * TicksPerSecond]]

\* the key is readable until its lifetime has run out
Live == bucket.exists /\ rl_now < bucket.expire_at

\* _check and require_rag_rate_limit: store_up = FALSE is a store that raises
Check(store_up) ==
    /\ Len(IF Live THEN rl_hist ELSE <<>>) < MaxChecks
    /\ UNCHANGED <<sessions, answers, progress, topics, docs, now, txn, rl_now>>
    /\ UNCHANGED <<ragVars, grading, stamps>>
    /\ IF RATE_LIMIT_RAG_RPM <= 0
       THEN /\ resp' = Reply("check", None, None, 200, "rate limiting disabled")
            /\ UNCHANGED <<bucket, rl_hist>>
       ELSE IF ~store_up
       THEN /\ resp' = Reply("check", None, None, 200, "store error, request allowed")
            /\ UNCHANGED <<bucket, rl_hist>>
       ELSE LET out == _LUA_SCRIPT(IF Live THEN bucket ELSE NoBucket,
                                   RATE_LIMIT_RAG_BURST * TokenUnit,
                                   RATE_LIMIT_RAG_RPM, rl_now)
            IN /\ bucket' = out.bucket
               /\ rl_hist' = Append(IF Live THEN rl_hist ELSE <<>>,
                                    [at |-> rl_now, stamp |-> rl_now,
                                     allowed |-> out.allowed])
               /\ resp' = IF out.allowed
                          THEN Reply("check", None, None, 200, "")
                          ELSE Reply("check", None, None, 429,
                                     "Too many requests - please slow down.")

\* the waits between two checks: one tick, two seconds, the key's lifetime
Delays == {1, 2 * TicksPerSecond, BucketTTL * TicksPerSecond}

\* no wait starts once the clock has reached MaxRlTime
Wait(d) ==
    /\ rl_now < MaxRlTime
    /\ rl_now' = rl_now + d
    /\ UNCHANGED <<sessions, answers, progress, topics, docs, now, resp, txn,
                   bucket, rl_hist>>
    /\ UNCHANGED <<ragVars, grading, stamps>>

NextLimiter ==
    \/ \E store_up \in BOOLEAN : Check(store_up)
    \/ \E d \in Delays : Wait(d)

SpecLimiter == Init /\ [][NextLimiter]_vars

----------------------------------------------------------------------------
(* Concurrent checks on one bucket key.  _check reads time.time() in the
   caller's process and hands it to the script as ARGV[3]; the store runs one
   script at a time, in the order the calls reach it. *)

\* _check up to the call of r.eval: the caller has read its clock
Stamp ==
    /\ Cardinality(stamps) < MaxInFlight
    /\ rl_now \notin stamps
    /\ stamps' = stamps \cup {rl_now}
    /\ UNCHANGED <<sessions, answers, progress, topics, docs, now, resp, txn,
                   bucket, rl_now, rl_hist, ragVars, grading>>

\* the script runs in the store for the call that read its clock at t
Eval(t) ==
    LET hist == IF Live THEN rl_hist ELSE <<>>
        out == _LUA_SCRIPT(IF Live THEN bucket ELSE NoBucket,
                           RATE_LIMIT_RAG_BURST * TokenUnit,
                           RATE_LIMIT_RAG_RPM, t)
    IN /\ t \in stamps
       /\ Len(hist) < MaxConcChecks
       /\ stamps' = stamps \ {t}
       /\ bucket' = [out.bucket EXCEPT
                       !.expire_at = rl_now + BucketTTL * TicksPerSecond]
       /\ rl_hist' = Append(hist, [at |-> rl_now, stamp |-> t,
                                   allowed |-> out.allowed])
       /\ resp' = IF out.allowed
                  THEN Reply("check", None, None, 200, "")
                  ELSE Reply("check", None, None, 429,
                             "Too many requests - please slow down.")
       /\ UNCHANGED <<sessions, answers, progress, topics, docs, now, txn, rl_now,
                      ragVars, grading>>

\* time passes while calls are on their way
Pass(d) ==
    /\ rl_now < MaxRlTime
    /\ rl_now' = rl_now + d
    /\ UNCHANGED <<sessions, answers, progress, topics, docs, now, resp, txn,
                   bucket, rl_hist, ragVars, grading, stamps>>

NextLimiterConc ==
    \/ Stamp
    \/ \E t \in stamps : Eval(t)
    \/ \E d \in Delays : Pass(d)

SpecLimiterConc == Init /\ [][NextLimiterConc]_vars

----------------------------------------------------------------------------
(* The shared store behind the RAG calls: one rate-limit bucket per caller key
   (services/rate_limiter.py) and the retrieval cache (services/rag_cache.py)
   in front of RAGClient.retrieve and RAGClient.query (services/rag_client.py).
   The clock is rl_now. *)

RAG_CACHE_TTL_SECONDS == 3600
RAG_CACHE_ENABLED == TRUE

\* who calls: an authenticated user, or nobody (None)
Callers == Students \cup {None}
\* the x-forwarded-for header (first entry, "" when absent) and the peer address
Forwardeds == {"", "10.0.0.1"}
ClientHosts == {"10.0.0.1"}

\* request.state.user_id as require_rag_rate_limit finds it: get_current_user
\* returns the user to the handler and nothing assigns request.state
StateUserId(user) == None

_client_key(state_user_id, forwarded, client_host) ==
    IF state_user_id # None
    THEN <<"rl:rag:u", ToString(state_user_id)>>
    ELSE <<"rl:rag:ip", IF forwarded # "" THEN forwarded
                        ELSE IF client_host # "" THEN client_host
                        ELSE "unknown">>

\* the fields of rag_resp every call fills in
RagReply(op, store_up) ==
    [op |-> op, user |-> None, key |-> <<>>, allowed |-> TRUE, store_up |-> store_up,
     set_up |-> TRUE, query |-> "", filters |-> "", history |-> <<>>,
     hit |-> FALSE, backend |-> FALSE, raised |-> FALSE,
     value |-> [op |-> "", query |-> "", filters |-> "", history |-> <<>>]]

\* the hash under a bucket key as the script reads it
Stored(key) ==
    IF key \in DOMAIN buckets /\ rl_now < buckets[key].expire_at
    THEN buckets[key] ELSE NoBucket

\* require_rag_rate_limit for one request: _client_key, then _check
Require(user, forwarded, client_host, store_up) ==
    LET key == _client_key(StateUserId(user), forwarded, client_host)
        out == _LUA_SCRIPT(Stored(key), RATE_LIMIT_RAG_BURST * TokenUnit,
                           RATE_LIMIT_RAG_RPM, rl_now)
        allowed == RATE_LIMIT_RAG_RPM <= 0 \/ ~store_up \/ out.allowed
    IN /\ buckets' = IF RATE_LIMIT_RAG_RPM <= 0 \/ ~store_up THEN buckets
                     ELSE [k \in DOMAIN buckets \cup {key} |->
                             IF k = key THEN out.bucket ELSE buckets[k]]
       /\ rag_resp' = [RagReply("check", store_up) EXCEPT
                    !.user = user, !.key = key, !.allowed = allowed]
       /\ UNCHANGED <<sessions, answers, progress, topics, docs, now, resp, txn,
                      bucket, rl_now, rl_hist, cache, grading, stamps>>

\* what a call may ask for
Queries == {"q1", "q2"}
RagCollections == {"S6_Geography"}
TopKs == {5}
\* filters: None ("") or a filter dict
FilterInputs == {"", "year=2023"}
\* chat_history: None or [] (both <<>>), or earlier turns
HistoryInputs == {<<>>, <<"turn1">>}

\* the answer of the RAG service: it depends on the whole payload
BackendResult(op, query, filters, history) ==
    [op |-> op, query |-> query, filters |-> filters, history |-> history]

NoResult == [op |-> "", query |-> "", filters |-> "", history |-> <<>>]

\* the keys of the params dicts, in sorted order
SortedKeys == <<"collection", "query", "question", "top_k">>

\* json.dumps(params, sort_keys=True, default=str): the items of the dict in
\* the order of their keys, whatever order the dict was built in
Serialise(params) ==
    LET ks == SelectSeq(SortedKeys, LAMBDA k : k \in DOMAIN params)
    IN [i \in 1 .. Len(ks) |-> <<ks[i], params[ks[i]]>>]

\* json.dumps(result, default=str): the items of the response in their order
Dumps(result) ==
    <<<<"op", result.op>>, <<"query", result.query>>,
      <<"filters", result.filters>>, <<"history", result.history>>>>

\* json.loads(raw)
Loads(raw) ==
    [op |-> raw[1][2], query |-> raw[2][2], filters |-> raw[3][2],
     history |-> raw[4][2]]

\* the params dict retrieve and query build for the cache
Params(op, query, collection, top_k) ==
    IF op = "retrieve"
    THEN [query |-> query, collection |-> collection, top_k |-> top_k]
    ELSE [question |-> query, collection |-> collection, top_k |-> top_k]

\* the key made without its prefix
_make_key_NoPrefix(prefix, params) ==
    <<"rag_cache", "", Serialise(params)>>

\* "rag_cache:{prefix}:{digest}", digest the first 16 hex digits of the SHA-256
\* of the serialised params; distinct texts of the parameter sets above are
\* taken to have distinct digests
_make_key(prefix, params) ==
    <<"rag_cache", prefix, Serialise(params)>>

\* the read that does not notice the store is down
cache_get_IgnoreStore(prefix, params, store_up) ==
    LET key == _make_key(prefix, params)
    IN IF key \in DOMAIN cache /\ rl_now < cache[key].expire_at
       THEN [hit |-> TRUE, value |-> Loads(cache[key].raw)]
       ELSE [hit |-> FALSE, value |-> NoResult]

cache_get(prefix, params, store_up) ==
    LET key == _make_key(prefix, params)
    IN IF ~RAG_CACHE_ENABLED \/ ~store_up
       THEN [hit |-> FALSE, value |-> NoResult]
       ELSE IF key \in DOMAIN cache /\ rl_now < cache[key].expire_at
       THEN [hit |-> TRUE, value |-> Loads(cache[key].raw)]
       ELSE [hit |-> FALSE, value |-> NoResult]

\* the cache after cache_set; ttl = 0 stands for ttl=None
cache_set(prefix, params, result, ttl, store_up) ==
    LET key == _make_key(prefix, params)
        life == IF ttl # 0 THEN ttl ELSE RAG_CACHE_TTL_SECONDS
    IN IF ~RAG_CACHE_ENABLED \/ ~store_up THEN cache
       ELSE [k \in DOMAIN cache \cup {key} |->
               IF k = key
               THEN [raw |-> Dumps(result),
                     expire_at |-> rl_now + life * TicksPerSecond]
               ELSE cache[k]]

\* the entries a call may add are capped at MaxEntries
Room(prefix, params) ==
    \/ _make_key(prefix, params) \in DOMAIN cache
    \/ Cardinality(DOMAIN cache) < MaxEntries

\* one call of a client method that looks in the cache first when use_cache
ClientCall(op, query, collection, top_k, filters, history, use_cache, get_up, set_up, backend_ok) ==
    LET params == Params(op, query, collection, top_k)
        cached == IF use_cache THEN cache_get(op, params, get_up)
                  ELSE [hit |-> FALSE, value |-> NoResult]
        result == BackendResult(op, query, filters, history)
        reply == [RagReply(op, get_up) EXCEPT
                    !.set_up = set_up, !.query = query, !.filters = filters, !.history = history]
    IN /\ Room(op, params)
       /\ UNCHANGED <<sessions, answers, progress, topics, docs, now, resp, txn,
                      bucket, rl_now, rl_hist, buckets, grading, stamps>>
       /\ IF cached.hit
          THEN /\ rag_resp' = [reply EXCEPT !.hit = TRUE, !.value = cached.value]
               /\ cache' = cache
          ELSE IF ~backend_ok
          THEN /\ rag_resp' = [reply EXCEPT !.backend = TRUE, !.raised = TRUE]
               /\ cache' = cache
          ELSE /\ rag_resp' = [reply EXCEPT !.backend = TRUE, !.value = result]
               /\ cache' = IF use_cache THEN cache_set(op, params, result, 0, set_up)
                           ELSE cache

\* RAGClient.retrieve
Retrieve(query, collection, top_k, filters, store_up, backend_ok) ==
    ClientCall("retrieve", query, collection, top_k, filters, <<>>, TRUE,
               store_up, store_up, backend_ok)

\* use_cache = not chat_history, read as always true
UseCache_Always(chat_history) ==
    TRUE

\* use_cache = not chat_history
UseCache(chat_history) ==
    chat_history = <<>>

\* RAGClient.query
Query(question, collection, top_k, filters, chat_history, store_up, backend_ok) ==
    ClientCall("query", question, collection, top_k, filters, chat_history,
               UseCache(chat_history), store_up, store_up, backend_ok)

\* the waits of this part: half the cache lifetime, and all of it
RagDelays == {(RAG_CACHE_TTL_SECONDS * TicksPerSecond) \div 2,
              RAG_CACHE_TTL_SECONDS * TicksPerSecond}

\* time passes; the store drops the keys whose lifetime has run out
Sleep(d) ==
    /\ rl_now < MaxRlTime
    /\ rl_now' = rl_now + d
    /\ cache' = [k \in {x \in DOMAIN cache : rl_now + d < cache[x].expire_at} |->
                   cache[k]]
    /\ buckets' = [k \in {x \in DOMAIN buckets : rl_now + d < buckets[x].expire_at} |->
                     buckets[k]]
    /\ UNCHANGED <<sessions, answers, progress, topics, docs, now, resp, txn,
                   bucket, rl_hist, rag_resp, grading, stamps>>

NextRag ==
    \/ \E user \in Callers, forwarded \in Forwardeds, client_host \in ClientHosts,
          store_up \in BOOLEAN :
          Require(user, forwarded, client_host, store_up)
    \/ \E query \in Queries, collection \in RagCollections, top_k \in TopKs,
          filters \in FilterInputs, store_up \in BOOLEAN, backend_ok \in BOOLEAN :
          Retrieve(query, collection, top_k, filters, store_up, backend_ok)
    \/ \E question \in Queries, collection \in RagCollections, top_k \in TopKs,
          filters \in FilterInputs, chat_history \in HistoryInputs,
          store_up \in BOOLEAN, backend_ok \in BOOLEAN :
          Query(question, collection, top_k, filters, chat_history, store_up,
                backend_ok)
    \/ \E d \in RagDelays : Sleep(d)

SpecRag == Init /\ [][NextRag]_vars

----------------------------------------------------------------------------
(* The graders as functions of their arguments: _normalise and grade_answer
   (services/grading.py) and _grade_answer_with_rag (api/practice.py), applied
   to every text of a small alphabet. *)

\* the characters of the texts: a letter in both cases that is an article by
\* itself, a second letter, white space and punctuation
TextChars == {"A", "a", "n", " ", ","}

\* the texts of at most n characters
TextsUpTo(n) == UNION {[1 .. k -> TextChars] : k \in 0 .. n}

StudentTexts == TextsUpTo(MaxTextLen)
\* Question.correct_answer: None or a text
CorrectTexts == {NoText} \cup TextsUpTo(MaxCorrectLen)
QuestionTypes == {"mcq", "short-answer"}
\* the session's collection: none, or one
GradeCollections == {"", "S6_Geography"}

InitGrade ==
    /\ InitSession
    /\ InitStores
    /\ \E student \in StudentTexts, correct \in CorrectTexts, qt \in QuestionTypes :
          grading = [NoGrading EXCEPT !.question_type = qt,
                                      !.student_answer = student,
                                      !.correct_answer = correct,
                                      !.text = student]

frame == <<sessions, answers, progress, topics, docs, now, resp, txn, bucket,
           rl_now, rl_hist, buckets, cache, rag_resp, stamps>>

\* t = _normalise(t), at most MaxPasses times in a row
Normalise ==
    /\ grading.op \in {"none", "_normalise"}
    /\ grading.passes < MaxPasses
    /\ grading' = [grading EXCEPT !.op = "_normalise",
                                  !.before = grading.text,
                                  !.text = _normalise(grading.text),
                                  !.passes = @ + 1]
    /\ UNCHANGED frame

\* grade_answer(question_type, student_answer, correct_answer, rag_client):
\* rag says whether there is a client and what the LLM replies through it
GradeText(rag) ==
    /\ grading.op = "none"
    /\ grading' = [grading EXCEPT
                     !.op = "grade_answer",
                     !.rag = rag,
                     !.is_correct = Bool(grade_answer(grading.question_type,
                                                      grading.student_answer,
                                                      grading.correct_answer,
                                                      rag)),
                     !.calls = grade_answer_calls(grading.question_type,
                                                  grading.student_answer,
                                                  grading.correct_answer,
                                                  rag)]
    /\ UNCHANGED frame

\* _grade_answer_with_rag(question_text, student_answer, correct_answer,
\* question_type, collection) when the LLM replies llm
GradeRag(collection, llm) ==
    LET out == _grade_answer_with_rag(grading.student_answer, grading.correct_answer,
                                      grading.question_type, llm)
    IN /\ grading.op = "none"
       /\ grading' = [grading EXCEPT
                        !.op = "_grade_answer_with_rag",
                        !.is_correct = out.is_correct,
                        !.score = out.score,
                        !.raises = out.raises,
                        !.calls = GradeCalls(grading.question_type,
                                             grading.correct_answer, collection)]
       /\ UNCHANGED frame

NextGrade ==
    \/ Normalise
    \/ \E rag \in Tier3Replies : GradeText(rag)
    \/ \E collection \in GradeCollections, llm \in LLMReplies :
          GradeRag(collection, llm)

SpecGrade == InitGrade /\ [][NextGrade]_vars

----------------------------------------------------------------------------
(* The Progress Aggregator by itself: complete_practice_session on a session
   that already holds its answers. *)

\* what an answer row can hold of a verdict: question_id of a pool question or
\* None, and is_correct True, False or None
AggRows ==
    {[question_id |-> q, is_correct |-> c, score |-> IF c = "True" THEN 10 ELSE 0] :
        q \in QuestionIds \cup {None}, c \in {"True", "False", "None"}}

\* a session of student 1 started with MaxAggAnswers questions, after k answers
InitAgg ==
    /\ InitStores
    /\ grading = NoGrading
    /\ progress = <<>>
    /\ topics = InitTopics
    /\ docs = InitDocs
    /\ now = 1
    /\ resp = Reply("none", None, None, 0, "")
    /\ \E k \in 1 .. MaxAggAnswers : \E rows \in [1 .. k -> AggRows] :
          /\ answers = [j \in 1 .. k |-> NewAnswer(1, rows[j].question_id, rows[j])]
          /\ sessions =
                <<[NewSession(1, 1, None, "S6_Geography", MaxAggAnswers) EXCEPT
                     !.answered_count = k,
                     !.correct_count =
                        Cardinality({j \in 1 .. k : rows[j].is_correct = "True"}),
                     !.status = IF k = MaxAggAnswers THEN COMPLETED ELSE IN_PROGRESS,
                     !.completed_at = IF k = MaxAggAnswers THEN now ELSE None]>>

NextAgg ==
    /\ \E caller \in Students, sid \in SessionIdInputs : Complete(caller, sid)
    /\ UNCHANGED <<txn, bucket, rl_now, rl_hist, buckets, cache, rag_resp, grading, stamps>>

SpecAgg == InitAgg /\ [][NextAgg]_vars

----------------------------------------------------------------------------
(* Properties of the session engine *)

\* the request that produced the response of a step
Req == [op |-> resp'.op, caller |-> resp'.caller, sid |-> resp'.sid]

\* the step is the handling of a request of this kind (Tick leaves resp alone)
Handled(op) == resp'.op = op /\ now' = now

Owns(student, sid) ==
    sid \in 1 .. Len(sessions) /\ sessions[sid].student_id = student

DbUnchanged == UNCHANGED <<sessions, answers, progress, topics, docs>>

RECURSIVE SumTotals(_, _)
\* total_questions summed over the Progress rows of a student
SumTotals(student, keys) ==
    IF keys = {} THEN 0
    ELSE LET k == CHOOSE x \in keys : TRUE
         IN (IF k[1] = student THEN progress[k].total_questions ELSE 0)
            + SumTotals(student, keys \ {k})

\* the answers stored for the completed sessions of a student that were
\* started with a question count of at least 1
CompletedAnswers(student) ==
    {j \in 1 .. Len(answers) :
        /\ sessions[answers[j].session_id].student_id = student
        /\ sessions[answers[j].session_id].status = COMPLETED
        /\ sessions[answers[j].session_id].total_questions >= 1}

\* C1: every session satisfies 0 <= correct_count <= answered_count <=
\* total_questions, for every question count start accepts.
C1_SessionCounters ==
    \A i \in 1 .. Len(sessions) :
        /\ 0 <= sessions[i].correct_count
        /\ sessions[i].correct_count <= sessions[i].answered_count
        /\ sessions[i].answered_count <= sessions[i].total_questions

\* C2: a successful answer leaves the session COMPLETED exactly when it makes
\* answered_count equal to total_questions (stamping completed_at), and
\* IN_PROGRESS while answered_count < total_questions.
C2_CompletedIffQuotaFilled ==
    [][Handled("answer") /\ resp'.code = 200 =>
        LET after == sessions'[Req.sid]
        IN /\ (after.status = COMPLETED) <=> (after.answered_count = after.total_questions)
           /\ after.answered_count < after.total_questions => after.status = IN_PROGRESS
           /\ after.status = COMPLETED => after.completed_at # None]_vars

\* C3: an answer request that reaches the handler for a session of the caller
\* whose status is not IN_PROGRESS gets 400 and changes neither the session nor
\* the stored answers nor Progress.
C3_InactiveAnswerRejected ==
    [][Handled("answer") /\ resp'.code # 429 /\ Owns(Req.caller, Req.sid)
         /\ sessions[Req.sid].status # IN_PROGRESS =>
        /\ resp'.code = 400
        /\ resp'.detail = "Practice session is not active"
        /\ DbUnchanged]_vars

C3_Witness ==
    /\ resp.op = "answer" /\ resp.code = 400
    /\ resp.detail = "Practice session is not active"
    /\ Owns(resp.caller, resp.sid)
    /\ sessions[resp.sid].status = COMPLETED
    /\ sessions[resp.sid].answered_count > 0

\* C5: a complete that directly follows a successful complete of the same
\* session changes nothing but completed_at: status, counters and the Progress
\* rows stay as the first call left them.
C5_SecondCompleteIsNoOp ==
    [][(/\ resp.op = "complete" /\ resp.code = 200
        /\ Handled("complete") /\ resp'.code = 200 /\ Req.sid = resp.sid) =>
          /\ progress' = progress
          /\ sessions' = [sessions EXCEPT ![Req.sid].completed_at = now]]_vars

\* C6: whenever a session is COMPLETED the aggregator has run for it: the
\* Progress rows of its student count every answer of the student's completed
\* sessions (those started with a question count of at least 1).
C6_CompletedIsAggregated ==
    \A st \in Students :
        SumTotals(st, DOMAIN progress) >= Cardinality(CompletedAnswers(st))

\* C7: get, next, answer and complete issued for a session of another student
\* change nothing and return 404 (429 when the limiter rejects next or answer
\* first); list returns exactly the caller's sessions.
C7_OwnerOnly ==
    [][/\ (/\ now' = now
           /\ resp'.op \in {"get", "next", "answer", "complete"}
           /\ Req.sid \in 1 .. Len(sessions)
           /\ sessions[Req.sid].student_id # Req.caller) =>
          /\ resp'.code \in {404, 429}
          /\ resp'.code = 429 => resp'.op \in {"next", "answer"}
          /\ resp'.code = 404 => resp'.detail = "Practice session not found"
          /\ DbUnchanged
       /\ Handled("list") =>
          /\ resp'.listed = {i \in 1 .. Len(sessions) : sessions[i].student_id = Req.caller}
          /\ DbUnchanged]_vars

C7_Witness ==
    /\ resp.op = "answer" /\ resp.code = 404
    /\ resp.sid \in 1 .. Len(sessions)
    /\ sessions[resp.sid].student_id # resp.caller
    /\ sessions[resp.sid].status = IN_PROGRESS

\* C8: start with a document that exists and has not finished ingestion fails
\* with 400, and creates no session.
C8_PendingDocumentIs400 ==
    [][\A c \in Students, s \in SubjectIds, d \in DocIds, n \in QuestionCounts,
          m \in Modes :
          docs[d].ingestion_status # "completed" /\ Start(c, s, d, n, m, TRUE) =>
             resp'.code = 400 /\ sessions' = sessions]_vars

\* C9: next serves a question only while answered_count < total_questions;
\* from then on it fails with 404 "All questions answered", and it fails with
\* 404 as well when no pool question is left and synthesis gives nothing.
C9_NextExhausted ==
    [][/\ Handled("next") =>
          /\ resp'.code = 200 =>
                /\ Owns(Req.caller, Req.sid)
                /\ sessions[Req.sid].answered_count < sessions[Req.sid].total_questions
          /\ (/\ Owns(Req.caller, Req.sid)
              /\ sessions[Req.sid].answered_count >= sessions[Req.sid].total_questions) =>
                /\ resp'.code \in {404, 429}
                /\ resp'.code = 404 =>
                      resp'.detail = "All questions answered - session complete"
       /\ \A c \in Students, i \in 1 .. Len(sessions), synth \in {"none", "error"} :
             (/\ NextQuestion(c, i, synth, TRUE)
              /\ Owns(c, i)
              /\ existing_questions(i) = {}) =>
                resp'.code = 404]_vars

C9_Witness ==
    /\ resp.op = "next" /\ resp.code = 404
    /\ resp.detail = "All questions answered - session complete"
    /\ Owns(resp.caller, resp.sid)
    /\ sessions[resp.sid].answered_count = sessions[resp.sid].total_questions
    /\ sessions[resp.sid].total_questions > 0

\* C4: under concurrent answer requests, a session started with a question
\* count of at least 1 keeps answered_count <= total_questions and
\* answered_count equal to the number of answer rows stored for it.
C4_CountersMatchRows ==
    \A i \in 1 .. Len(sessions) :
        sessions[i].total_questions >= 1 =>
            /\ sessions[i].answered_count <= sessions[i].total_questions
            /\ sessions[i].answered_count = Len(AnswersOf(i))

\* C10: with burst 5 and rpm 30, of the checks made on a fresh bucket with no
\* time elapsing exactly the first 5 are allowed, and the check that follows a
\* rejection by at least 2 seconds is allowed.
C10_BurstThenRefill ==
    /\ \A k \in 1 .. Len(rl_hist) :
          (\A j \in 1 .. k : rl_hist[j].at = rl_hist[1].at) =>
             (rl_hist[k].allowed <=> k <= 5)
    /\ \A k \in 2 .. Len(rl_hist) :
          (/\ ~rl_hist[k - 1].allowed
           /\ rl_hist[k].at - rl_hist[k - 1].at >= 2 * TicksPerSecond) =>
             rl_hist[k].allowed

C10_Witness ==
    /\ Len(rl_hist) = 7
    /\ \A j \in 1 .. 6 : rl_hist[j].at = rl_hist[1].at
    /\ \A j \in 1 .. 5 : rl_hist[j].allowed
    /\ ~rl_hist[6].allowed
    /\ rl_hist[7].at - rl_hist[6].at >= 2 * TicksPerSecond
    /\ rl_hist[7].allowed

\* C11: a start, next or answer request the limiter rejects fails with 429
\* before its handler runs: no retrieval, LLM or OCR call is made and no
\* session, answer or Progress record changes.
C11_RejectedBeforeHandler ==
    [][/\ Handled("start") =>
             \A s \in SubjectIdInputs, d \in DocIdInputs, n \in QuestionCounts,
                m \in Modes :
                Start(Req.caller, s, d, n, m, FALSE) => resp'.code = 429
       /\ Handled("next") =>
             \A synth \in SynthOutcomes :
                NextQuestion(Req.caller, Req.sid, synth, FALSE) => resp'.code = 429
       /\ Handled("answer") =>
             (Answer(Req.caller, Req.sid, FALSE) => resp'.code = 429)
       /\ (/\ now' = now
           /\ resp'.op \in {"start", "next", "answer"}
           /\ resp'.code = 429) =>
             /\ resp'.calls = {}
             /\ DbUnchanged]_vars

C11_Witness ==
    /\ resp.op = "answer" /\ resp.code = 429 /\ resp.calls = {}
    /\ Owns(resp.caller, resp.sid)
    /\ sessions[resp.sid].status = IN_PROGRESS
    /\ sessions[resp.sid].answered_count < sessions[resp.sid].total_questions

\* the step is a limiter check or a client call of this kind
RagHandled(op) == rag_resp'.op = op /\ rl_now' = rl_now

\* the parameters the cache key of the last client call is made of
RagParams(r) == Params(r.op, r.query, "S6_Geography", 5)

\* C12: a failure of the shared store is never visible: the limiter check
\* allows the request and leaves the buckets alone, cache_get reports a miss,
\* cache_set changes nothing, and the backend is called and its result
\* returned.
C12_StoreFailureAbsorbed ==
    [][/\ (RagHandled("check") /\ ~rag_resp'.store_up) =>
             /\ rag_resp'.allowed
             /\ ~rag_resp'.raised
             /\ buckets' = buckets
       /\ \A op \in {"retrieve", "query"} :
             /\ (RagHandled(op) /\ ~rag_resp'.store_up) =>
                   /\ ~rag_resp'.hit
                   /\ rag_resp'.backend
             /\ (RagHandled(op) /\ ~rag_resp'.set_up) => cache' = cache
             /\ RagHandled(op) =>
                   \A get_up \in BOOLEAN, set_up \in BOOLEAN :
                      (/\ ~(get_up /\ set_up)
                       /\ ~cache_get(op, RagParams(rag_resp'), get_up).hit
                       /\ ClientCall(op, rag_resp'.query, "S6_Geography", 5,
                                     rag_resp'.filters, rag_resp'.history,
                                     UseCache(rag_resp'.history), get_up, set_up,
                                     TRUE)) =>
                         /\ ~rag_resp'.raised
                         /\ rag_resp'.value =
                               BackendResult(op, rag_resp'.query, rag_resp'.filters,
                                             rag_resp'.history)]_vars

\* a retrieve that found the store down although its entry was cached
C12_Witness ==
    /\ rag_resp.op = "retrieve" /\ ~rag_resp.store_up /\ ~rag_resp.set_up
    /\ rag_resp.backend /\ ~rag_resp.raised /\ ~rag_resp.hit
    /\ _make_key("retrieve", RagParams(rag_resp)) \in DOMAIN cache
    /\ rl_now < cache[_make_key("retrieve", RagParams(rag_resp))].expire_at
    /\ rag_resp.value = BackendResult("retrieve", rag_resp.query, rag_resp.filters, <<>>)

\* the bucket key of an authenticated user
UserKey(user) == <<"rl:rag:u", ToString(user)>>

\* C13: the check of an authenticated caller is made on the bucket keyed by
\* the caller's user id and touches no other bucket, so that users who share
\* a client IP never consume each other's tokens.
C13_BucketKeyedByUser ==
    [][(RagHandled("check") /\ rag_resp'.user # None) =>
          /\ rag_resp'.key = UserKey(rag_resp'.user)
          /\ \A k \in DOMAIN buckets' :
                k # UserKey(rag_resp'.user) =>
                   k \in DOMAIN buckets /\ buckets'[k] = buckets[k]]_vars

\* the cache key of the last client call
RagKey(r) == _make_key(r.op, RagParams(r))

\* C14: cache_get with the (prefix, params) of an earlier cache_set returns
\* the stored value while the TTL has not elapsed and misses after it; the key
\* is a function of (prefix, params) alone, and a different prefix or
\* different params give a different key, hence a miss.
C14_CacheRoundTrip ==
    [][IF rl_now' # rl_now
       THEN \A k \in DOMAIN cache :
               IF rl_now' < cache[k].expire_at
               THEN k \in DOMAIN cache' /\ cache'[k] = cache[k]
               ELSE k \notin DOMAIN cache'
       ELSE rag_resp'.op \in {"retrieve", "query"} =>
            LET r == rag_resp'
                k == RagKey(r)
                live == k \in DOMAIN cache /\ rl_now < cache[k].expire_at
                stored == r.backend /\ ~r.raised /\ r.set_up /\ r.history = <<>>
                other == IF r.op = "query" THEN "retrieve" ELSE "query"
            IN /\ (r.store_up /\ r.history = <<>>) =>
                     /\ r.hit <=> live
                     /\ r.hit => r.value = Loads(cache[k].raw) /\ ~r.backend
               /\ stored =>
                     /\ k \in DOMAIN cache'
                     /\ Loads(cache'[k].raw) = r.value
                     /\ cache'[k].expire_at =
                           rl_now + RAG_CACHE_TTL_SECONDS * TicksPerSecond
               /\ \A x \in DOMAIN cache \cup DOMAIN cache' :
                     (x # k \/ ~stored) =>
                        /\ x \in DOMAIN cache /\ x \in DOMAIN cache'
                        /\ cache'[x] = cache[x]
               /\ \A q \in Queries :
                     /\ (_make_key(r.op, Params(r.op, q, "S6_Geography", 5)) = k)
                           <=> (q = r.query)
                     /\ _make_key(other, Params(other, q, "S6_Geography", 5)) # k
               /\ _make_key(other, RagParams(r)) # k]_vars

\* a retrieve served half a lifetime after its entry was stored
C14_Witness ==
    /\ rag_resp.op = "retrieve" /\ rag_resp.hit /\ ~rag_resp.backend
    /\ rl_now = (RAG_CACHE_TTL_SECONDS * TicksPerSecond) \div 2
    /\ RagKey(rag_resp) \in DOMAIN cache
    /\ cache[RagKey(rag_resp)].expire_at = RAG_CACHE_TTL_SECONDS * TicksPerSecond
    /\ rag_resp.value = Loads(cache[RagKey(rag_resp)].raw)

\* C15: a retrieve or query without chat history is served from the cache
\* only with the response of a call with the same full parameter set, filters
\* included: what it returns is what the backend gives for its own parameters.
C15_HitHasSameFilters ==
    [][\A op \in {"retrieve", "query"} :
          (RagHandled(op) /\ rag_resp'.history = <<>> /\ rag_resp'.hit) =>
             rag_resp'.value =
                BackendResult(op, rag_resp'.query, rag_resp'.filters, <<>>)]_vars

\* C16: a query with non-empty chat history reaches the backend, returns the
\* backend's response and not a cached one, and leaves the cache as it was.
C16_HistoryBypassesCache ==
    [][(RagHandled("query") /\ rag_resp'.history # <<>>) =>
          /\ rag_resp'.backend
          /\ ~rag_resp'.hit
          /\ ~rag_resp'.raised =>
                rag_resp'.value =
                   BackendResult("query", rag_resp'.query, rag_resp'.filters,
                                 rag_resp'.history)
          /\ cache' = cache]_vars

\* a query with history answered by the backend while the store is up and
\* holds a live entry for the same question
C16_Witness ==
    /\ rag_resp.op = "query" /\ rag_resp.history # <<>>
    /\ rag_resp.store_up /\ rag_resp.backend /\ ~rag_resp.raised
    /\ RagKey(rag_resp) \in DOMAIN cache
    /\ rl_now < cache[RagKey(rag_resp)].expire_at
    /\ rag_resp.value # Loads(cache[RagKey(rag_resp)].raw)

----------------------------------------------------------------------------
(* Properties of the graders *)

\* the normalised, spelling-unified tokens of a text
Tokens(text) == Range(Split(_unify_spelling(_normalise(text))))

\* C17: grade_answer without a retrieval client grades a short answer
\* incorrect when its tokens share none with the tokens of the correct answer,
\* for every correct answer that has a token at all.
C17_NoSharedTokenIsIncorrect ==
    (/\ grading.op = "grade_answer"
     /\ grading.rag = "no_client"
     /\ grading.question_type = "short-answer"
     /\ grading.correct_answer # NoText
     /\ Tokens(grading.correct_answer) # {}
     /\ Tokens(grading.student_answer) \cap Tokens(grading.correct_answer) = {}) =>
        grading.is_correct = "False"

\* C18: _normalise(_normalise(s)) = _normalise(s): normalising a text that is
\* itself the result of a normalisation gives it back unchanged.
C18_NormaliseIdempotent ==
    (grading.op = "_normalise" /\ grading.passes >= 2) =>
        grading.text = grading.before

\* a text the first pass changed and the second left alone
C18_Witness ==
    /\ grading.op = "_normalise" /\ grading.passes = 2
    /\ grading.text = grading.before
    /\ grading.text # <<>>
    /\ grading.text # grading.student_answer
    /\ grading.text # Lower(grading.student_answer)

\* C19: for a multiple-choice question with a known correct answer the
\* verdict is correct exactly when the two answers are equal up to case and
\* surrounding white space, the score is 1.0 or 0.0 accordingly, and neither
\* retrieval nor the LLM is called.
C19_McqExactNoBackend ==
    (/\ grading.op = "_grade_answer_with_rag"
     /\ grading.question_type = "mcq"
     /\ Truthy(grading.correct_answer)) =>
        /\ grading.is_correct =
              Bool(Lower(Strip(grading.student_answer))
                     = Lower(Strip(grading.correct_answer)))
        /\ grading.score = (IF grading.is_correct = "True" THEN 10 ELSE 0)
        /\ ~grading.raises
        /\ grading.calls = {}

\* an answer accepted although it differs from the correct one in case and
\* in surrounding white space
C19_Witness ==
    /\ grading.op = "_grade_answer_with_rag"
    /\ grading.question_type = "mcq"
    /\ grading.correct_answer = <<"A">>
    /\ grading.student_answer = <<" ", "a", " ">>
    /\ grading.is_correct = "True" /\ grading.score = 10
    /\ grading.calls = {}

\* C20: when the question has no known correct answer the answer is never
\* marked correct and its score is 0, whatever the student wrote and whatever
\* the LLM replied.
C20_UnknownAnswerIsIncorrect ==
    (grading.op = "_grade_answer_with_rag" /\ grading.correct_answer = NoText) =>
        /\ grading.is_correct # "True"
        /\ grading.score = 0

----------------------------------------------------------------------------
(* Further properties of the session engine *)

\* C21: an answer request on an IN_PROGRESS session of the caller that the
\* limiter admits and that carries an answer succeeds whatever the backend
\* does: it returns 200 and records exactly one answer.
C21_AnswerSurvivesBackend ==
    [][(/\ Handled("answer")
        /\ Owns(Req.caller, Req.sid)
        /\ sessions[Req.sid].status = IN_PROGRESS
        /\ resp'.code \notin {429, 400}) =>
          /\ resp'.code = 200
          /\ Len(answers') = Len(answers) + 1]_vars

\* the Progress row under a key before it exists
RowOf(prog, k) == IF k \in DOMAIN prog THEN prog[k] ELSE NewProgress

RECURSIVE SumOver(_, _, _)
\* the sum of a counter's increase over a set of Progress keys
SumOver(keys, field, step) ==
    IF keys = {} THEN 0
    ELSE LET k == CHOOSE x \in keys : TRUE
         IN (IF field = "total_questions"
             THEN step[2][k].total_questions - RowOf(step[1], k).total_questions
             ELSE step[2][k].total_correct - RowOf(step[1], k).total_correct)
            + SumOver(keys \ {k}, field, step)

\* C22 as stated: the stored accuracy is exactly total_correct /
\* total_questions (in ten-thousandths), 0 when total_questions is 0.
C22_AccuracyExact ==
    \A k \in DOMAIN progress :
        progress[k].accuracy * progress[k].total_questions
           = 10000 * progress[k].total_correct

\* C22, amended: every Progress row satisfies 0 <= total_correct <=
\* total_questions and its accuracy is total_correct / total_questions to the
\* nearest ten-thousandth (0 when total_questions is 0); an aggregation adds
\* the counts of each bucket to the stored counters of one row, raises that
\* row's attempt_count by exactly 1 and leaves the other rows alone.
C22_ProgressAdditive ==
    [][/\ \A k \in DOMAIN progress' :
             LET row == progress'[k]
             IN /\ 0 <= row.total_correct
                /\ row.total_correct <= row.total_questions
                /\ 0 <= row.accuracy
                /\ 2 * (10000 * row.total_correct - row.accuracy * row.total_questions)
                      <= row.total_questions
                /\ 2 * (row.accuracy * row.total_questions - 10000 * row.total_correct)
                      <= row.total_questions
                /\ row.total_questions = 0 => row.accuracy = 0
       /\ (Handled("complete") /\ resp'.code = 200) =>
             LET mine == AnswersOf(Req.sid)
             IN /\ DOMAIN progress \subseteq DOMAIN progress'
                /\ \A k \in DOMAIN progress' :
                      LET old == RowOf(progress, k)
                          new == progress'[k]
                      IN \/ k \in DOMAIN progress /\ new = old
                         \/ /\ new.total_questions > old.total_questions
                            /\ new.total_correct >= old.total_correct
                            /\ new.total_correct - old.total_correct
                                  <= new.total_questions - old.total_questions
                            /\ new.attempt_count = old.attempt_count + 1
                /\ SumOver(DOMAIN progress', "total_questions", <<progress, progress'>>)
                      = Len(mine)
                /\ SumOver(DOMAIN progress', "total_correct", <<progress, progress'>>)
                      = Len(SelectSeq(mine, LAMBDA a : a.is_correct = "True"))
       /\ ~(Handled("complete") /\ resp'.code = 200) => progress' = progress]_vars

\* a row holding two correct answers of three after one aggregation
C22_Witness ==
    /\ resp.op = "complete" /\ resp.code = 200
    /\ \E k \in DOMAIN progress :
          /\ progress[k].total_questions = 3
          /\ progress[k].total_correct = 2
          /\ progress[k].accuracy = 6667
          /\ progress[k].attempt_count = 1

\* C23: in every state a session's completed_at is set exactly when its
\* status is COMPLETED or ABANDONED; an IN_PROGRESS session carries none.
C23_CompletedAtIffTerminal ==
    \A i \in 1 .. Len(sessions) :
        /\ (sessions[i].completed_at # None)
              <=> (sessions[i].status \in {COMPLETED, ABANDONED})
        /\ sessions[i].status = IN_PROGRESS => sessions[i].completed_at = None

\* a session the last answer of its quota has just completed
C23_Witness ==
    /\ resp.op = "answer" /\ resp.code = 200
    /\ Owns(resp.caller, resp.sid)
    /\ sessions[resp.sid].status = COMPLETED
    /\ sessions[resp.sid].completed_at = now
    /\ sessions[resp.sid].answered_count = MaxCount

\* C24: a successful answer appends exactly one row, of its session, to the
\* stored answers; every other request and every rejected answer leaves the
\* stored answers as they are; and with requests handled one at a time the
\* number of rows of a session equals its answered_count.
C24_OneRowPerAnswer ==
    [][/\ IF Handled("answer") /\ resp'.code = 200
          THEN /\ Len(answers') = Len(answers) + 1
               /\ SubSeq(answers', 1, Len(answers)) = answers
               /\ answers'[Len(answers')].session_id = Req.sid
          ELSE answers' = answers
       /\ \A i \in 1 .. Len(sessions') :
             sessions'[i].answered_count
                = Len(SelectSeq(answers', LAMBDA a : a.session_id = i))]_vars

\* a session holding the two rows of its two successful answers
C24_Witness ==
    /\ resp.op = "answer" /\ resp.code = 200
    /\ Owns(resp.caller, resp.sid)
    /\ sessions[resp.sid].answered_count = 2
    /\ Len(AnswersOf(resp.sid)) = 2

----------------------------------------------------------------------------
(* Properties of the rate limiter under concurrent checks *)

\* the checks admitted among the entries i .. j of the history
Admitted(i, j) == Cardinality({k \in i .. j : rl_hist[k].allowed})

\* the earliest clock reading among the checks i .. j of the history
FirstStamp(i, j) ==
    CHOOSE m \in {rl_hist[k].stamp : k \in i .. j} :
        \A k \in i .. j : m <= rl_hist[k].stamp

\* C25: for any interleaving of concurrent checks on one key, the token
\* balance stays within [0, burst], and the number of checks admitted in an
\* interval (from the earliest clock reading of the checks counted to the
\* arrival of the last of them) is at most burst + refill_rate * its length.
C25_AdmissionsBounded ==
    /\ bucket.exists =>
          /\ 0 <= bucket.tokens
          /\ bucket.tokens <= RATE_LIMIT_RAG_BURST * TokenUnit
    /\ \A i \in 1 .. Len(rl_hist) : \A j \in i .. Len(rl_hist) :
          Admitted(i, j) * TokenUnit
             <= RATE_LIMIT_RAG_BURST * TokenUnit
                  + RATE_LIMIT_RAG_RPM * (rl_hist[j].at - FirstStamp(i, j))

----------------------------------------------------------------------------
(* Further properties of the session engine, continued *)

Recorded(sid) ==
    {answers[j].question_id : j \in {n \in 1 .. Len(answers) : answers[n].session_id = sid}}

\* C27: next never serves a pool question whose id is recorded in an answer
\* of the session; for a session pinned to a document it serves pool questions
\* of that document only; and it calls the retrieval backend to synthesize a
\* question only when no unanswered pool question of the session's documents
\* remains.
C27_QuestionSourceOrder ==
    [][Handled("next") =>
          /\ (resp'.code = 200 /\ resp'.detail = "pool") =>
                /\ resp'.question_id \in QuestionIds
                /\ resp'.question_id \notin Recorded(Req.sid)
                /\ sessions[Req.sid].document_id # None =>
                      Questions[resp'.question_id].document_id
                         = sessions[Req.sid].document_id
          /\ (resp'.calls # {} \/ resp'.detail = "synthesized") =>
                /\ resp'.question_id \notin QuestionIds
                /\ \A q \in QuestionIds :
                      \/ q \in Recorded(Req.sid)
                      \/ IF sessions[Req.sid].document_id # None
                         THEN Questions[q].document_id # sessions[Req.sid].document_id
                         ELSE Questions[q].document_id \notin subject_doc_ids(Req.sid)]_vars

\* the second pool question served to a pinned session that answered the first
C27_Witness ==
    /\ resp.op = "next" /\ resp.code = 200 /\ resp.detail = "pool"
    /\ Owns(resp.caller, resp.sid)
    /\ sessions[resp.sid].document_id = 1
    /\ Recorded(resp.sid) \cap QuestionIds # {}
    /\ resp.question_id \notin Recorded(resp.sid)

----------------------------------------------------------------------------
(* Further properties of the graders *)

\* C28: grade_answer tries normalised match, token-set match and the semantic
\* tier in that order and stops at the first verdict: a text tier that matches
\* gives "correct" without a backend call; the LLM is called only when the
\* correct answer is known, both text tiers failed and a client is there; its
\* verdict is then the result; and a failed call or a reply that is not JSON
\* leaves the semantic tier without verdict, so that the result is incorrect.
C28_TiersInOrder ==
    (grading.op = "grade_answer" /\ grading.question_type = "short-answer") =>
        LET student == Strip(grading.student_answer)
            correct == Strip(grading.correct_answer)
            known == grading.correct_answer # NoText /\ student # <<>>
            text_match == \/ _tier1_normalised_match(student, correct)
                          \/ _tier2_token_match(student, correct)
            called == "query_direct" \in grading.calls
        IN /\ called <=> (known /\ ~text_match /\ grading.rag # "no_client")
           /\ (known /\ text_match) => grading.is_correct = "True"
           /\ (called /\ grading.rag = "json_true") => grading.is_correct = "True"
           /\ (called /\ grading.rag = "json_false") => grading.is_correct = "False"
           /\ (called /\ grading.rag \in {"error", "no_braces", "bad_json"}) =>
                 grading.is_correct = "False"
           /\ ~known => grading.is_correct = "False"

\* the LLM was asked after both text tiers failed, and its reply was no JSON
C28_Witness ==
    /\ grading.op = "grade_answer"
    /\ "query_direct" \in grading.calls
    /\ grading.rag = "bad_json"
    /\ grading.correct_answer # NoText
    /\ ~_tier2_token_match(Strip(grading.student_answer), Strip(grading.correct_answer))
    /\ grading.is_correct = "False"

----------------------------------------------------------------------------
(* Further properties of the session engine, concluded *)

\* C29: every stored PracticeAnswer and every answer result has a score
\* within [0.0, 1.0] (0 .. 10 tenths), whatever score the LLM's grading reply
\* holds.
C29_ScoreWithinUnit ==
    /\ \A i \in 1 .. Len(answers) : answers[i].score \in 0 .. 10
    /\ (resp.op = "answer" /\ resp.code = 200) => resp.score \in 0 .. 10

\* C30: within one session a pool question is answered at most once: no two
\* PracticeAnswer rows of a session carry the same non-null question_id, and
\* a row is linked to a question of the pool or to none.
C30_PoolQuestionAnsweredOnce ==
    /\ \A i, j \in 1 .. Len(answers) :
          (/\ i # j
           /\ answers[i].session_id = answers[j].session_id
           /\ answers[i].question_id # None) =>
              answers[i].question_id # answers[j].question_id
    /\ \A i \in 1 .. Len(answers) : answers[i].question_id \in QuestionIds \cup {None}

====
